---- MODULE Spec2Model ----
(***************************************************************************)
(* Model of convert.py (story-site-convert): the tolerant decoder, the     *)
(* comment tree builder, the per-file record extractor and the corpus      *)
(* assembler.  Text is a sequence of code points, bytes are 0..255.        *)
(***************************************************************************)
EXTENDS Integers, Sequences, FiniteSets, TLC

VARIABLES
    story_bytes, decode_pc, text,
    hr_nodes, comments_pc, pos, stack, top_level_comments, child_comments,
    files, pc, file_pos, j, stories, story_data, fs_rank, prev, next, comment_author, raised

decode_vars == <<story_bytes, decode_pc, text>>
comment_vars == <<hr_nodes, comments_pc, pos, stack, top_level_comments, child_comments>>
convert_vars ==
    <<files, pc, file_pos, j, stories, story_data, fs_rank, prev, next, comment_author, raised>>
vars == <<decode_vars, comment_vars, convert_vars>>

\* Python's None where a story is expected; stories are numbered from 1
None == 0

(***************************************************************************)
(* Bounds                                                                  *)
(***************************************************************************)
MaxBytes == 4
MaxComments == 5
MaxDepth == 2
MaxFiles == 3
NDates == 3

(***************************************************************************)
(* Tolerant decoder                                                        *)
(***************************************************************************)

\* U+DC00: a byte b that is not valid UTF-8 is escaped as U+DC00 + b
SURROGATE_BASE == 56320

\* bytes the input files are drawn from: '?', continuation bytes 0x80 0x81
\* 0xA0 0xBC, and the lead bytes 0xC3 0xE2 0xEF
ByteAlphabet == {63, 128, 129, 160, 188, 195, 226, 239}

IsContinuation(b) == b >= 128 /\ b <= 191

\* length of the well-formed UTF-8 sequence at the head of bs, 0 if there is none
Utf8SeqLen(bs) ==
    LET b1 == bs[1] IN
    IF b1 < 128 THEN 1
    ELSE IF b1 >= 194 /\ b1 <= 223
        THEN IF Len(bs) >= 2 /\ IsContinuation(bs[2]) THEN 2 ELSE 0
    ELSE IF b1 >= 224 /\ b1 <= 239
        THEN IF /\ Len(bs) >= 3
                /\ IsContinuation(bs[2])
                /\ IsContinuation(bs[3])
                /\ (b1 = 224 => bs[2] >= 160)
                /\ (b1 = 237 => bs[2] <= 159)
             THEN 3 ELSE 0
    ELSE IF b1 >= 240 /\ b1 <= 244
        THEN IF /\ Len(bs) >= 4
                /\ IsContinuation(bs[2])
                /\ IsContinuation(bs[3])
                /\ IsContinuation(bs[4])
                /\ (b1 = 240 => bs[2] >= 144)
                /\ (b1 = 244 => bs[2] <= 143)
             THEN 4 ELSE 0
    ELSE 0

\* the code point encoded by the first n bytes of bs
Utf8CodePoint(bs, n) ==
    IF n = 1 THEN bs[1]
    ELSE IF n = 2 THEN (bs[1] - 192) * 64 + (bs[2] - 128)
    ELSE IF n = 3 THEN (bs[1] - 224) * 4096 + (bs[2] - 128) * 64 + (bs[3] - 128)
    ELSE (bs[1] - 240) * 262144 + (bs[2] - 128) * 4096 + (bs[3] - 128) * 64 + (bs[4] - 128)

RECURSIVE raw_decoded(_)
\* bytes.decode(errors='surrogateescape')
raw_decoded(bs) ==
    IF bs = <<>> THEN <<>>
    ELSE LET n == Utf8SeqLen(bs) IN
         IF n = 0
         THEN <<SURROGATE_BASE + bs[1]>> \o raw_decoded(Tail(bs))
         ELSE <<Utf8CodePoint(bs, n)>> \o raw_decoded(SubSeq(bs, n + 1, Len(bs)))

RECURSIVE Replace(_, _, _)
\* str.replace(old, new): left to right, non-overlapping
Replace(s, old, new) ==
    IF Len(s) < Len(old) THEN s
    ELSE IF SubSeq(s, 1, Len(old)) = old
         THEN new \o Replace(SubSeq(s, Len(old) + 1, Len(s)), old, new)
         ELSE <<s[1]>> \o Replace(Tail(s), old, new)

\* '\udce2\udc80?' -> U+201D
fixed_quotes_1(s) == Replace(s, <<56546, 56448, 63>>, <<8221>>)

RECURSIVE ReplaceFirst(_, _, _)
\* str.replace(old, new, 1): the first occurrence only
ReplaceFirst(s, old, new) ==
    IF Len(s) < Len(old) THEN s
    ELSE IF SubSeq(s, 1, Len(old)) = old
         THEN new \o SubSeq(s, Len(old) + 1, Len(s))
         ELSE <<s[1]>> \o ReplaceFirst(Tail(s), old, new)

\* a fix that repairs the first truncated quote only
fixed_quotes_2_first_only(s) == ReplaceFirst(s, <<56546, 56448>>, <<8221>>)

\* '\udce2\udc80' -> U+201D
fixed_quotes_2(s) == Replace(s, <<56546, 56448>>, <<8221>>)

\* '\udcc3' -> U+00E0
fixed_letter_a_grave(s) == Replace(s, <<56515>>, <<224>>)

\* '\udcef\udcbc' -> U+FFFD
fixed_unknown_sequence(s) == Replace(s, <<56559, 56508>>, <<65533>>)

\* the four corrections, in the order of the code
FixedSubstitutions(s) ==
    fixed_unknown_sequence(fixed_letter_a_grave(fixed_quotes_2(fixed_quotes_1(s))))

\* cp1252 for the bytes 0x80..0x9F; 0 where the codec has no character
CP1252_HIGH ==
    << 8364, 0, 8218, 402, 8222, 8230, 8224, 8225, 710, 8240, 352, 8249, 338, 0, 381, 0,
       0, 8216, 8217, 8220, 8221, 8226, 8211, 8212, 732, 8482, 353, 8250, 339, 0, 382, 376 >>

\* [\udc80-\udcff]
SURROGATE_ESCAPES(c) == c >= SURROGATE_BASE + 128 /\ c <= SURROGATE_BASE + 255

\* bytes([byte]).decode('cp1252'): the character, or 0 for UnicodeDecodeError
cp1252_decode(byte) == IF byte >= 160 THEN byte ELSE CP1252_HIGH[byte - 127]

\* the character surrogate_cp1252_replace returns for one match, 0 if it raises
surrogate_cp1252_replace(c) == cp1252_decode(c - SURROGATE_BASE)

\* SURROGATE_ESCAPES.sub(surrogate_cp1252_replace, s) raises iff one match does
SubRaises(s) ==
    \E k \in 1..Len(s) : SURROGATE_ESCAPES(s[k]) /\ surrogate_cp1252_replace(s[k]) = 0

surrogate_decoded(s) ==
    [k \in 1..Len(s) |->
        IF SURROGATE_ESCAPES(s[k]) THEN surrogate_cp1252_replace(s[k]) ELSE s[k]]

RECURSIVE SeqsUpTo(_, _)
\* all sequences over S of length at most n
SeqsUpTo(S, n) ==
    IF n = 0 THEN {<<>>}
    ELSE LET shorter == SeqsUpTo(S, n - 1) IN
         shorter \cup {Append(s, x) : s \in {t \in shorter : Len(t) = n - 1}, x \in S}

\* line 180
RawDecode ==
    /\ decode_pc = "start"
    /\ text' = raw_decoded(story_bytes)
    /\ decode_pc' = "raw_decoded"
    /\ UNCHANGED story_bytes
    /\ UNCHANGED <<comment_vars, convert_vars>>

\* line 181
FixQuotes1 ==
    /\ decode_pc = "raw_decoded"
    /\ text' = fixed_quotes_1(text)
    /\ decode_pc' = "fixed_quotes_1"
    /\ UNCHANGED story_bytes
    /\ UNCHANGED <<comment_vars, convert_vars>>

\* line 182
FixQuotes2 ==
    /\ decode_pc = "fixed_quotes_1"
    /\ text' = fixed_quotes_2(text)
    /\ decode_pc' = "fixed_quotes_2"
    /\ UNCHANGED story_bytes
    /\ UNCHANGED <<comment_vars, convert_vars>>

\* line 183
FixLetterAGrave ==
    /\ decode_pc = "fixed_quotes_2"
    /\ text' = fixed_letter_a_grave(text)
    /\ decode_pc' = "fixed_letter_a_grave"
    /\ UNCHANGED story_bytes
    /\ UNCHANGED <<comment_vars, convert_vars>>

\* line 184
FixUnknownSequence ==
    /\ decode_pc = "fixed_letter_a_grave"
    /\ text' = fixed_unknown_sequence(text)
    /\ decode_pc' = "fixed_unknown_sequence"
    /\ UNCHANGED story_bytes
    /\ UNCHANGED <<comment_vars, convert_vars>>

\* lines 187-189, every match has a cp1252 character
SurrogateDecode ==
    /\ decode_pc = "fixed_unknown_sequence"
    /\ ~SubRaises(text)
    /\ text' = surrogate_decoded(text)
    /\ decode_pc' = "returned"
    /\ UNCHANGED story_bytes
    /\ UNCHANGED <<comment_vars, convert_vars>>

\* lines 187-189, byte.decode('cp1252') raises on line 159
SurrogateDecodeRaises ==
    /\ decode_pc = "fixed_unknown_sequence"
    /\ SubRaises(text)
    /\ decode_pc' = "UnicodeDecodeError"
    /\ UNCHANGED <<story_bytes, text>>
    /\ UNCHANGED <<comment_vars, convert_vars>>

(***************************************************************************)
(* Comment tree builder                                                    *)
(***************************************************************************)

\* pixels of indent per reply level (line 214)
INDENT_PX == 25

\* a comment's <hr>: the margin of the parent's style attribute (None if the
\* parent has no style), whether the author line matches AUTHOR_INFO, and the
\* author name the line carries
NoStyle == -1

Margins == {NoStyle} \cup {INDENT_PX * d : d \in 0..MaxDepth}

\* author names, as code points: "B", "a" are story authors, "c" only comments
NameB == <<66>>
NameA == <<97>>
NameC == <<99>>

GoodHrNodes == [margin : Margins, info_ok : {TRUE}, name : {NameA}]

BadHrNode == [margin |-> NoStyle, info_ok |-> FALSE, name |-> NameA]

\* lines 194-196: get_comment raises ValueError
get_comment_raises(node) == ~node.info_ok

\* lines 211-214: Comment.depth
get_comment_depth(node) ==
    IF node.margin = NoStyle THEN 0 ELSE node.margin \div INDENT_PX

Min(a, b) == IF a <= b THEN a ELSE b

Last(s) == s[Len(s)]

\* del stack[depth:]
Truncated(stk, depth) == SubSeq(stk, 1, Min(depth, Len(stk)))

\* a loop body that files a comment without ancestor as a top-level comment
LoopBody_default_top_level(st, c, depth) ==
    LET stk == Truncated(st.stack, depth) IN
    IF depth > 0 /\ stk # <<>>
    THEN [failed |-> FALSE,
          stack |-> Append(stk, c),
          top |-> st.top,
          kids |-> [st.kids EXCEPT ![Last(stk)] = Append(@, c)]]
    ELSE [failed |-> FALSE,
          stack |-> Append(stk, c),
          top |-> Append(st.top, c),
          kids |-> st.kids]

\* a loop body that forgets del stack[comment.depth:]
LoopBody_no_truncate(st, c, depth) ==
    IF depth > 0
    THEN IF st.stack = <<>>
         THEN [failed |-> TRUE, stack |-> st.stack, top |-> st.top, kids |-> st.kids]
         ELSE [failed |-> FALSE,
               stack |-> Append(st.stack, c),
               top |-> st.top,
               kids |-> [st.kids EXCEPT ![Last(st.stack)] = Append(@, c)]]
    ELSE [failed |-> FALSE,
          stack |-> Append(st.stack, c),
          top |-> Append(st.top, c),
          kids |-> st.kids]

\* lines 238-249 for comment number c of depth `depth`; failed: the assert of
\* line 244 fails (in a run without asserts, stack[-1] of line 245 does)
LoopBody(st, c, depth) ==
    LET stk == Truncated(st.stack, depth) IN
    IF depth > 0
    THEN IF stk = <<>>
         THEN [failed |-> TRUE, stack |-> stk, top |-> st.top, kids |-> st.kids]
         ELSE [failed |-> FALSE,
               stack |-> Append(stk, c),
               top |-> st.top,
               kids |-> [st.kids EXCEPT ![Last(stk)] = Append(@, c)]]
    ELSE [failed |-> FALSE,
          stack |-> Append(stk, c),
          top |-> Append(st.top, c),
          kids |-> st.kids]

\* lines 223-224 plus Comment.comments = [] of every new Comment
EmptyForest(n) == [stack |-> <<>>, top |-> <<>>, kids |-> [c \in 1..n |-> <<>>]]

RECURSIVE BuildFrom(_, _, _)
\* the loop of lines 225-249 from comment c on; "failed" on underflow
BuildFrom(nodes, st, c) ==
    IF c > Len(nodes) THEN [status |-> "returned", top |-> st.top, kids |-> st.kids]
    ELSE LET body == LoopBody(st, c, get_comment_depth(nodes[c])) IN
         IF body.failed
         THEN [status |-> "AssertionError", top |-> <<>>, kids |-> <<>>]
         ELSE BuildFrom(nodes, body, c + 1)

\* parse_comments as a function of the <hr> nodes of the comments div
parse_comments(nodes) ==
    IF \E c \in 1..Len(nodes) : get_comment_raises(nodes[c])
    THEN [status |-> "ValueError", top |-> <<>>, kids |-> <<>>]
    ELSE BuildFrom(nodes, EmptyForest(Len(nodes)), 1)

RECURSIVE Preorder(_, _)
\* the comments of a forest in the order the recursion of assign_comments
\* (lines 328-332) visits them
Preorder(roots, kids) ==
    IF roots = <<>> THEN <<>>
    ELSE <<roots[1]>> \o Preorder(kids[roots[1]], kids) \o Preorder(Tail(roots), kids)

\* line 220, a get_comment call raises
GetCommentRaises ==
    /\ comments_pc = "start"
    /\ \E c \in 1..Len(hr_nodes) : get_comment_raises(hr_nodes[c])
    /\ comments_pc' = "ValueError"
    /\ UNCHANGED <<hr_nodes, pos, stack, top_level_comments, child_comments>>
    /\ UNCHANGED <<decode_vars, convert_vars>>

\* lines 220-224
GetComments ==
    /\ comments_pc = "start"
    /\ \A c \in 1..Len(hr_nodes) : ~get_comment_raises(hr_nodes[c])
    /\ comments_pc' = "loop"
    /\ pos' = 1
    /\ stack' = EmptyForest(Len(hr_nodes)).stack
    /\ top_level_comments' = EmptyForest(Len(hr_nodes)).top
    /\ child_comments' = EmptyForest(Len(hr_nodes)).kids
    /\ UNCHANGED hr_nodes
    /\ UNCHANGED <<decode_vars, convert_vars>>

\* the loop body applied to the comment at pos
Body == LoopBody([stack |-> stack, top |-> top_level_comments, kids |-> child_comments],
                 pos, get_comment_depth(hr_nodes[pos]))

\* lines 238-249 for one comment
LoopStep ==
    /\ comments_pc = "loop"
    /\ pos <= Len(hr_nodes)
    /\ ~Body.failed
    /\ stack' = Body.stack
    /\ top_level_comments' = Body.top
    /\ child_comments' = Body.kids
    /\ pos' = pos + 1
    /\ UNCHANGED <<hr_nodes, comments_pc>>
    /\ UNCHANGED <<decode_vars, convert_vars>>

\* lines 238-244: the assert fails; a run without asserts fails on line 245
LoopUnderflow ==
    /\ comments_pc = "loop"
    /\ pos <= Len(hr_nodes)
    /\ Body.failed
    /\ comments_pc' \in {"AssertionError", "IndexError"}
    /\ UNCHANGED <<hr_nodes, pos, stack, top_level_comments, child_comments>>
    /\ UNCHANGED <<decode_vars, convert_vars>>

\* line 250
ReturnForest ==
    /\ comments_pc = "loop"
    /\ pos > Len(hr_nodes)
    /\ comments_pc' = "returned"
    /\ UNCHANGED <<hr_nodes, pos, stack, top_level_comments, child_comments>>
    /\ UNCHANGED <<decode_vars, convert_vars>>


CommentsNext ==
    \/ GetCommentRaises
    \/ GetComments
    \/ LoopStep
    \/ LoopUnderflow
    \/ ReturnForest

DecodeNext ==
    \/ RawDecode
    \/ FixQuotes1
    \/ FixQuotes2
    \/ FixLetterAGrave
    \/ FixUnknownSequence
    \/ SurrogateDecode
    \/ SurrogateDecodeRaises

(***************************************************************************)
(* Record extractor                                                        *)
(***************************************************************************)

NoCredits == [matches |-> FALSE, name |-> <<>>, date |-> 0]

GoodThread ==
    << [margin |-> NoStyle, info_ok |-> TRUE, name |-> NameA],
       [margin |-> INDENT_PX, info_ok |-> TRUE, name |-> NameC] >>

UnderflowThread == << [margin |-> INDENT_PX, info_ok |-> TRUE, name |-> NameA] >>

BadInfoThread == << BadHrNode >>

\* a file: the verdict of looks_like_story_file, the credits text as
\* AUTHOR_INFO sees it, the number of comment forms, the <hr> nodes of the
\* comments div of the second form
NotStoryFile ==
    [looks_like_story |-> FALSE, credits |-> NoCredits, comment_forms |-> 1, hr_nodes |-> <<>>]

StoryFiles ==
    {[looks_like_story |-> TRUE,
      credits |-> [matches |-> TRUE, name |-> a, date |-> d],
      comment_forms |-> t[1],
      hr_nodes |-> t[2]] :
        a \in {NameA, NameB}, d \in 1..NDates, t \in {<<1, <<>>>>, <<2, GoodThread>>}}

BrokenThreadFiles ==
    {[looks_like_story |-> TRUE,
      credits |-> [matches |-> TRUE, name |-> NameA, date |-> 1],
      comment_forms |-> 2,
      hr_nodes |-> t] : t \in {UnderflowThread, BadInfoThread}}

BadCreditsFiles ==
    {[looks_like_story |-> TRUE,
      credits |-> NoCredits,
      comment_forms |-> t[1],
      hr_nodes |-> t[2]] : t \in {<<1, <<>>>>, <<2, UnderflowThread>>}}

InputFiles == {NotStoryFile} \cup StoryFiles \cup BrokenThreadFiles \cup BadCreditsFiles

NoForest == [status |-> "returned", top |-> <<>>, kids |-> <<>>]

\* lines 267-271
file_comments(f) ==
    IF f.comment_forms > 1 THEN parse_comments(f.hr_nodes) ELSE NoForest

\* parse_story_file: "story" with the Story, "None", or the exception that
\* leaves it
parse_story_file(f) ==
    IF ~f.looks_like_story
    THEN [status |-> "None"]
    ELSE IF file_comments(f).status # "returned"
    THEN [status |-> file_comments(f).status]
    ELSE IF f.credits.matches
    THEN [status |-> "story",
          author_name |-> f.credits.name,
          date |-> f.credits.date,
          comments |-> file_comments(f)]
    ELSE [status |-> "None"]

(***************************************************************************)
(* Corpus assembler                                                        *)
(***************************************************************************)

\* str.lower on one code point
Lower(c) == IF c >= 65 /\ c <= 90 THEN c + 32 ELSE c

LowerName(name) == [k \in 1..Len(name) |-> Lower(name[k])]

RECURSIVE LexLeq(_, _)
\* a <= b for strings
LexLeq(a, b) ==
    IF a = <<>> THEN TRUE
    ELSE IF b = <<>> THEN FALSE
    ELSE IF a[1] < b[1] THEN TRUE
    ELSE IF a[1] > b[1] THEN FALSE
    ELSE LexLeq(Tail(a), Tail(b))

Front(s) == SubSeq(s, 1, Len(s) - 1)

\* s with x put behind the longest prefix of s whose elements go before x;
\* before[m] tells whether s[m] does
InsertBehind(s, x, before) ==
    LET n == Cardinality({k \in 1..Len(s) : \A m \in 1..k : before[m]}) IN
    SubSeq(s, 1, n) \o <<x>> \o SubSeq(s, n + 1, Len(s))

RECURSIVE SortedNames(_)
\* sorted(story_data, key=str.lower) (line 346)
SortedNames(names) ==
    IF names = <<>> THEN <<>>
    ELSE LET x == Last(names)
             sorted == SortedNames(Front(names)) IN
         InsertBehind(sorted, x,
            [m \in 1..Len(sorted) |-> LexLeq(LowerName(sorted[m]), LowerName(x))])

RECURSIVE SortedByDate(_, _)
\* sorted(stories, key=attrgetter('date')) (line 347): stable
SortedByDate(ids, st) ==
    IF ids = <<>> THEN <<>>
    ELSE LET x == Last(ids)
             sorted == SortedByDate(Front(ids), st) IN
         InsertBehind(sorted, x,
            [m \in 1..Len(sorted) |-> st[sorted[m]].date <= st[x].date])

\* story_data[name].stories.append(id), creating the Author when missing
\* (lines 74-77, 344)
AppendStory(sd, name, id) ==
    IF \E k \in 1..Len(sd) : sd[k].name = name
    THEN [k \in 1..Len(sd) |->
            IF sd[k].name = name
            THEN [sd[k] EXCEPT !.stories = Append(@, id)]
            ELSE sd[k]]
    ELSE Append(sd, [name |-> name, stories |-> <<id>>])

AuthorNames(sd) == [k \in 1..Len(sd) |-> sd[k].name]

StoriesOf(sd, name) == sd[CHOOSE k \in 1..Len(sd) : sd[k].name = name].stories

\* the place of story x in the list s, 0 if it is not in it
IndexIn(s, x) == IF \E k \in 1..Len(s) : s[k] = x
                 THEN CHOOSE k \in 1..Len(s) : s[k] = x
                 ELSE 0

\* line 350: the rank k of enumerate(s, 1) that starts story.fs_name
RankedStories(rank, s) ==
    [x \in DOMAIN rank |-> IF IndexIn(s, x) > 0 THEN IndexIn(s, x) ELSE rank[x]]

\* lines 353-359, the next fields: s[0].next and every cur.next
LinkedNext(nxt, s) ==
    [x \in DOMAIN nxt |->
        LET k == IndexIn(s, x) IN
        IF Len(s) >= 2 /\ (k = 1 \/ (Len(s) > 2 /\ k >= 2 /\ k <= Len(s) - 1))
        THEN s[k + 1]
        ELSE nxt[x]]

\* the prev fields without the s[-1].prev = s[-2] of line 355
LinkedPrev_last_forgotten(prv, s) ==
    [x \in DOMAIN prv |->
        LET k == IndexIn(s, x) IN
        IF Len(s) > 2 /\ k >= 2 /\ k <= Len(s) - 1
        THEN s[k - 1]
        ELSE prv[x]]

\* lines 353-359, the prev fields: s[-1].prev and every cur.prev
LinkedPrev(prv, s) ==
    [x \in DOMAIN prv |->
        LET k == IndexIn(s, x) IN
        IF Len(s) >= 2 /\ (k = Len(s) \/ (Len(s) > 2 /\ k >= 2 /\ k <= Len(s) - 1))
        THEN s[k - 1]
        ELSE prv[x]]

\* assign_comments (lines 328-332) for one story: the Author each comment of
\* the forest is linked to, <<>> for a comment that stays unlinked
AssignedComments(sd, story, nodes, linked) ==
    LET visited == Preorder(story.comments.top, story.comments.kids) IN
    [c \in DOMAIN linked |->
        IF /\ \E v \in 1..Len(visited) : visited[v] = c
           /\ \E k \in 1..Len(sd) : sd[k].name = nodes[c].name
        THEN nodes[c].name
        ELSE linked[c]]

\* a generator that stops one file early
GeneratorExhausted_early(pos_, fs) == pos_ + 1 >= Len(fs)

\* line 282: the list of find_html_files is used up
GeneratorExhausted(pos_, fs) == pos_ >= Len(fs)

NoStory == [status |-> "None"]

\* lines 282-284: parse_story_file returns None, the generator goes on
ParseSkips ==
    /\ pc = "get_stories"
    /\ ~GeneratorExhausted(file_pos, files)
    /\ parse_story_file(files[file_pos + 1]).status = "None"
    /\ file_pos' = file_pos + 1
    /\ UNCHANGED <<files, pc, j, stories, story_data, fs_rank, prev, next, comment_author, raised>>
    /\ UNCHANGED <<decode_vars, comment_vars>>

\* lines 282-285: parse_story_file returns a Story, the generator yields it
ParseYields ==
    /\ pc = "get_stories"
    /\ ~GeneratorExhausted(file_pos, files)
    /\ parse_story_file(files[file_pos + 1]).status = "story"
    /\ file_pos' = file_pos + 1
    /\ stories' = [stories EXCEPT ![file_pos + 1] = parse_story_file(files[file_pos + 1])]
    /\ pc' = "loop_body"
    /\ UNCHANGED <<files, j, story_data, fs_rank, prev, next, comment_author, raised>>
    /\ UNCHANGED <<decode_vars, comment_vars>>

\* line 283: parse_story_file raises; nothing up to __main__ catches it
ParseRaises ==
    /\ pc = "get_stories"
    /\ ~GeneratorExhausted(file_pos, files)
    /\ parse_story_file(files[file_pos + 1]).status \notin {"None", "story"}
    /\ file_pos' = file_pos + 1
    /\ raised' = parse_story_file(files[file_pos + 1]).status
    /\ pc' = "raised"
    /\ UNCHANGED <<files, j, stories, story_data, fs_rank, prev, next, comment_author>>
    /\ UNCHANGED <<decode_vars, comment_vars>>

\* lines 344-345 for the story just yielded
GroupStory ==
    /\ pc = "loop_body"
    /\ story_data' = AppendStory(story_data, stories[file_pos].author_name, file_pos)
    /\ pc' = "get_stories"
    /\ UNCHANGED <<files, file_pos, j, stories, fs_rank, prev, next, comment_author, raised>>
    /\ UNCHANGED <<decode_vars, comment_vars>>

\* line 343: the generator is exhausted, the first loop ends
EndOfFiles ==
    /\ pc = "get_stories"
    /\ GeneratorExhausted(file_pos, files)
    /\ pc' = "rank"
    /\ UNCHANGED <<files, file_pos, j, stories, story_data, fs_rank, prev, next, comment_author, raised>>
    /\ UNCHANGED <<decode_vars, comment_vars>>

\* lines 346-359 for one author
RankAuthor ==
    /\ pc = "rank"
    /\ j + 1 < Len(story_data)
    /\ LET author_name == SortedNames(AuthorNames(story_data))[j + 2]
           s == SortedByDate(StoriesOf(story_data, author_name), stories) IN
        /\ fs_rank' = RankedStories(fs_rank, s)
        /\ next' = LinkedNext(next, s)
        /\ prev' = LinkedPrev(prev, s)
    /\ j' = j + 1
    /\ UNCHANGED <<files, pc, file_pos, stories, story_data, comment_author, raised>>
    /\ UNCHANGED <<decode_vars, comment_vars>>

\* line 346: the second loop ends; j counts the third loop from its start
EndOfRanking ==
    /\ pc = "rank"
    /\ j + 1 >= Len(story_data)
    /\ pc' = "assign_comments"
    /\ j' = -1
    /\ UNCHANGED <<files, file_pos, stories, story_data, fs_rank, prev, next, comment_author, raised>>
    /\ UNCHANGED <<decode_vars, comment_vars>>

\* lines 360-362 for one author
AssignComments ==
    /\ pc = "assign_comments"
    /\ j + 1 < Len(story_data)
    /\ comment_author' =
        [x \in DOMAIN comment_author |->
            IF IndexIn(story_data[j + 2].stories, x) > 0
            THEN AssignedComments(story_data, stories[x], files[x].hr_nodes, comment_author[x])
            ELSE comment_author[x]]
    /\ j' = j + 1
    /\ UNCHANGED <<files, pc, file_pos, stories, story_data, fs_rank, prev, next, raised>>
    /\ UNCHANGED <<decode_vars, comment_vars>>

\* lines 363-364
ReturnStoryData ==
    /\ pc = "assign_comments"
    /\ j + 1 >= Len(story_data)
    /\ pc' = "returned"
    /\ UNCHANGED <<files, file_pos, j, stories, story_data, fs_rank, prev, next, comment_author, raised>>
    /\ UNCHANGED <<decode_vars, comment_vars>>

ConvertNext ==
    \/ ParseSkips
    \/ ParseYields
    \/ ParseRaises
    \/ GroupStory
    \/ EndOfFiles
    \/ RankAuthor
    \/ EndOfRanking
    \/ AssignComments
    \/ ReturnStoryData

(***************************************************************************)
(* Specifications                                                          *)
(***************************************************************************)

\* no call of convert_html_files or parse_comments is under way
OnlyDecode ==
    /\ hr_nodes = <<>>
    /\ comments_pc = "idle"
    /\ pos = 0
    /\ stack = <<>>
    /\ top_level_comments = <<>>
    /\ child_comments = <<>>
    /\ files = <<>>
    /\ pc = "idle"
    /\ file_pos = 0
    /\ j = -1
    /\ stories = <<>>
    /\ story_data = <<>>
    /\ fs_rank = <<>>
    /\ prev = <<>>
    /\ next = <<>>
    /\ comment_author = <<>>
    /\ raised = ""

\* tolerant_decode is called on a byte sequence
InitDecode ==
    /\ story_bytes \in SeqsUpTo(ByteAlphabet, MaxBytes)
    /\ decode_pc = "start"
    /\ text = <<>>
    /\ OnlyDecode

\* parse_comments is called on the <hr> nodes of a comments div (line 219)
InitComments ==
    /\ hr_nodes \in SeqsUpTo(GoodHrNodes \cup {BadHrNode}, MaxComments)
    /\ comments_pc = "start"
    /\ pos = 0
    /\ stack = <<>>
    /\ top_level_comments = <<>>
    /\ child_comments = <<>>
    /\ story_bytes = <<>>
    /\ decode_pc = "idle"
    /\ text = <<>>
    /\ files = <<>>
    /\ pc = "idle"
    /\ file_pos = 0
    /\ j = -1
    /\ stories = <<>>
    /\ story_data = <<>>
    /\ fs_rank = <<>>
    /\ prev = <<>>
    /\ next = <<>>
    /\ comment_author = <<>>
    /\ raised = ""

\* lines 341-342, with the list find_html_files returned
InitConvert ==
    /\ files \in SeqsUpTo(InputFiles, MaxFiles)
    /\ pc = "get_stories"
    /\ file_pos = 0
    /\ j = -1
    /\ stories = [x \in 1..Len(files) |-> NoStory]
    /\ story_data = <<>>
    /\ fs_rank = [x \in 1..Len(files) |-> None]
    /\ prev = [x \in 1..Len(files) |-> None]
    /\ next = [x \in 1..Len(files) |-> None]
    /\ comment_author = [x \in 1..Len(files) |-> [c \in 1..Len(files[x].hr_nodes) |-> <<>>]]
    /\ raised = ""
    /\ story_bytes = <<>>
    /\ decode_pc = "idle"
    /\ text = <<>>
    /\ hr_nodes = <<>>
    /\ comments_pc = "idle"
    /\ pos = 0
    /\ stack = <<>>
    /\ top_level_comments = <<>>
    /\ child_comments = <<>>

\* tolerant_decode on one byte sequence
SpecDecode == InitDecode /\ [][DecodeNext]_vars

\* parse_comments on the <hr> nodes of one comments div
SpecComments == InitComments /\ [][CommentsNext]_vars

\* convert_html_files on one directory listing
SpecConvert == InitConvert /\ [][ConvertNext]_vars

(***************************************************************************)
(* Properties of the tolerant decoder                                      *)
(***************************************************************************)

\* C1: tolerant_decode returns a string for every byte sequence; no call
\* ends in a decoding error.
DecodingIsTotal == decode_pc # "UnicodeDecodeError"

\* C8: applying the four substitutions, in order, to the text they have
\* already corrected changes nothing.
SubstitutionsIdempotent ==
    decode_pc = "fixed_unknown_sequence" => FixedSubstitutions(text) = text

\* a corrected text: the substitutions changed the decoded text and left
\* other placeholders in it
CorrectedTextReached ==
    /\ decode_pc = "fixed_unknown_sequence"
    /\ text # raw_decoded(story_bytes)
    /\ \E k \in 1..Len(text) : SURROGATE_ESCAPES(text[k])

(***************************************************************************)
(* Properties of the comment tree builder                                  *)
(***************************************************************************)

\* the depth of comment c
depth(c) == get_comment_depth(hr_nodes[c])

Comments == 1..Len(hr_nodes)

\* C2: in a returned forest every child of a comment C has depth
\* C.depth + 1 and every top-level comment has depth 0.
ChildDepthIsParentDepthPlusOne ==
    comments_pc = "returned" =>
        /\ \A c \in Comments : \A k \in 1..Len(child_comments[c]) :
                depth(child_comments[c][k]) = depth(c) + 1
        /\ \A k \in 1..Len(top_level_comments) : depth(top_level_comments[k]) = 0

\* C3: a comment of positive depth that finds the stack empty after the
\* truncation makes parse_comments fail: it is not put in the top-level list,
\* and a failed call never returns a forest.
UnderflowFails ==
    [][/\ (/\ comments_pc = "loop"
           /\ pos <= Len(hr_nodes)
           /\ depth(pos) > 0
           /\ SubSeq(stack, 1, Min(depth(pos), Len(stack))) = <<>>)
          => (/\ comments_pc' \in {"AssertionError", "IndexError"}
              /\ top_level_comments' = top_level_comments)
       /\ comments_pc \in {"AssertionError", "IndexError"} => comments_pc' = comments_pc
      ]_vars

\* the first comment has a positive depth and the call has failed on it
UnderflowReached ==
    /\ comments_pc \in {"AssertionError", "IndexError"}
    /\ pos = 1
    /\ depth(1) > 0
    /\ top_level_comments = <<>>

IsTopLevel(c) == depth(c) = 0

Increasing(s) == \A a, b \in 1..Len(s) : a < b => s[a] < s[b]

DepthsOf(nodes) == [c \in 1..Len(nodes) |-> get_comment_depth(nodes[c])]

\* C4: a returned forest holds every comment once, its top-level list is the
\* depth-0 comments in flat order, every child list is in flat order and the
\* pre-order traversal is the flat sequence; depths [0,1,1,2,0] give two
\* top-level comments, the first with two children, the second child with one.
ForestPreservesFlatOrder ==
    comments_pc = "returned" =>
        /\ Preorder(top_level_comments, child_comments) = [c \in Comments |-> c]
        /\ top_level_comments = SelectSeq([c \in Comments |-> c], IsTopLevel)
        /\ \A c \in Comments : Increasing(child_comments[c])
        /\ DepthsOf(hr_nodes) = <<0, 1, 1, 2, 0>> =>
              /\ top_level_comments = <<1, 5>>
              /\ child_comments = <<(<<2, 3>>), <<>>, <<4>>, <<>>, <<>>>>

\* the forest of the depths [0,1,1,2,0] has been returned
ExampleForestReached ==
    /\ comments_pc = "returned"
    /\ DepthsOf(hr_nodes) = <<0, 1, 1, 2, 0>>

(***************************************************************************)
(* Properties of the corpus assembler                                      *)
(***************************************************************************)

Stories == {x \in 1..Len(files) : stories[x].status = "story"}

Authors == 1..Len(story_data)

StorySet(a) == {story_data[a].stories[k] : k \in 1..Len(story_data[a].stories)}

\* C5: after convert_html_files the fs ranks put every author's stories in
\* chronological order, consecutive stories are linked by next and prev, the
\* first has no prev and the last no next; next and prev are inverse and stay
\* within one author.
PrevNextChain ==
    pc = "returned" =>
        /\ \A a \in Authors :
            LET n == Len(story_data[a].stories) IN
            /\ \A k \in 1..n : \E x \in StorySet(a) : fs_rank[x] = k
            /\ \A x \in StorySet(a) :
                /\ fs_rank[x] \in 1..n
                /\ fs_rank[x] = 1 => prev[x] = None
                /\ fs_rank[x] = n => next[x] = None
                /\ \A y \in StorySet(a) :
                    /\ fs_rank[x] < fs_rank[y] => stories[x].date <= stories[y].date
                    /\ fs_rank[y] = fs_rank[x] + 1 => next[x] = y /\ prev[y] = x
        /\ \A x \in Stories :
            /\ next[x] # None =>
                /\ next[x] \in Stories
                /\ prev[next[x]] = x
                /\ stories[next[x]].author_name = stories[x].author_name
            /\ prev[x] # None =>
                /\ prev[x] \in Stories
                /\ next[prev[x]] = x
                /\ stories[prev[x]].author_name = stories[x].author_name

\* an author with three stories of timestamps t1 < t2 < t3 has been linked
ThreeStoryChainReached ==
    /\ pc = "returned"
    /\ \E a \in Authors :
        /\ Len(story_data[a].stories) = 3
        /\ \A x, y \in StorySet(a) : x # y => stories[x].date # stories[y].date

\* C6: a structural failure in one file's comment thread does not stop the
\* run.
FailureIsolatedToRecord ==
    ~(pc = "raised" /\ raised \in {"AssertionError", "ValueError"})

\* C7: parsing a file that looks like a story and whose credits do not match
\* the pattern raises nothing, whatever its comment section holds.
BadCreditsSilentlyDropped ==
    \A k \in 1..file_pos :
        (files[k].looks_like_story /\ ~files[k].credits.matches)
            => ~(pc = "raised" /\ k = file_pos)

\* C9: once the author mapping has been mutated no file is left to be
\* parsed.
MutationOnlyAfterAllExtraction ==
    story_data # <<>> => file_pos = Len(files)

Assembled(x) ==
    \/ fs_rank[x] # None
    \/ prev[x] # None
    \/ next[x] # None
    \/ \E c \in 1..Len(comment_author[x]) : comment_author[x][c] # <<>>

InStoryData(x) == \E a \in Authors : x \in StorySet(a)

\* C9, amended: ranks, prev/next and comment authors are assigned only when
\* every file has been extracted, while the insertion into the author mapping
\* is interleaved with the extraction: each story is in the mapping before
\* the next file is parsed.
RankingOnlyAfterAllExtraction ==
    /\ (\E x \in 1..Len(files) : Assembled(x)) => file_pos = Len(files)
    /\ pc = "get_stories" => \A x \in Stories : InStoryData(x)
    /\ pc = "loop_body" => \A x \in Stories : x # file_pos => InStoryData(x)

\* two stories have been extracted from different files and linked
LinkedAfterExtractionReached ==
    /\ pc = "returned"
    /\ Len(files) >= 2
    /\ \E x \in Stories : next[x] # None /\ fs_rank[x] # None

RECURSIVE GroupAll(_, _)
\* the mapping the first loop (lines 343-345) builds from the stories among
\* the files enumerated in the given order
GroupAll(order, st) ==
    IF order = <<>> THEN <<>>
    ELSE LET sd == GroupAll(Front(order), st)
             x == Last(order) IN
         IF st[x].status = "story" THEN AppendStory(sd, st[x].author_name, x) ELSE sd

Enumerations == {p \in [1..Len(files) -> 1..Len(files)] : \A a, b \in 1..Len(files) : p[a] = p[b] => a = b}

\* C10: whatever the order in which the files are enumerated, every story
\* gets the rank and the neighbours this run gave it.
EnumerationOrderIndependent ==
    pc = "returned" =>
        \A order \in Enumerations :
            LET sd == GroupAll(order, stories) IN
            \A a \in 1..Len(sd) :
                LET s == SortedByDate(sd[a].stories, stories) IN
                \A k \in 1..Len(s) :
                    /\ fs_rank[s[k]] = k
                    /\ next[s[k]] = IF k < Len(s) THEN s[k + 1] ELSE None
                    /\ prev[s[k]] = IF k > 1 THEN s[k - 1] ELSE None

====
